---- MODULE Spec2Model ----
(***************************************************************************)
(* Roktrack: the Pilot Decision Engine (FollowPerson, MonitorAnimal) and   *)
(* the Vision Pipeline worker, as state machines.                          *)
(*                                                                         *)
(*   src/src/module/pilot/follow_person.rs   FollowPerson::handle          *)
(*   src/src/module/pilot/monitor_animal.rs  MonitorAnimal::handle         *)
(*   src/src/module/vision.rs                RoktrackVision::run           *)
(*                                                                         *)
(* Temperatures are whole degrees Celsius, `rest` is a signed integer; the *)
(* f32 comparison of assess_situation is evaluated in thousandths.         *)
(* Times are milliseconds counted from a small origin.                     *)
(***************************************************************************)
EXTENDS Integers, Sequences, FiniteSets, TLC

VARIABLES
    rs,                  \* RoktrackState, the record handle receives as `state`
    tick,                \* what the last handle invocation read, decided and called
    last_detected_time,  \* MonitorAnimal.last_detected_time
    now,                 \* the wall clock read by chrono::Utc::now()
    notify_log,          \* times at which send_line_notify_with_image was called
    cmdq,                \* Command Channel: VisionMgmtCommands sent, not yet received
    resq,                \* Result Channel: VisualInfos sent, not yet received
    local_state,         \* RoktrackVision.state, the enabled flag
    session_type,        \* inner.det.session_type
    sessions,            \* the model family inner.det was last built for
    inner_lock,          \* who holds the mutex of RoktrackVision.inner
    pc,                  \* where the worker of RoktrackVision::run is in its loop
    frame,               \* the VisualInfo of the cycle in progress
    last_cmd,            \* what try_recv returned in this iteration
    cycles,              \* capture cycles started
    commands_sent,       \* commands put on the Command Channel
    last_cycle,          \* how the last capture cycle ended, or "running"
    published,           \* every VisualInfo sent on the Result Channel, in order
    received,            \* every VisualInfo the host loop has taken, in order
    was_enabled          \* the enabled flag as the last poll found it

pilot_vars == <<rs, tick, last_detected_time, now, notify_log>>

vision_vars == <<cmdq, resq, local_state, session_type, sessions, inner_lock, pc,
                 frame, last_cmd, cycles, commands_sent, last_cycle, published,
                 received, was_enabled>>

vars == <<pilot_vars, vision_vars>>

----------------------------------------------------------------------------
(* Bounds and sample sets                                                  *)

MaxDets == 2            \* longest detection list of a VisualInfo
MaxClockSteps == 3      \* the clock stops after this many notify intervals
MaxCommands == 2        \* commands sent on the Command Channel in one run
MaxCycles == 2          \* capture cycles started in one run
MaxHeight == 120        \* tallest marker handed to assess_situation on its own
MaxTurnCount == 11      \* largest turn_count handed to assess_situation on its own

TempThreshold == 70     \* follow_person.rs:123, monitor_animal.rs:103
StaleMargin == 300      \* follow_person.rs:66, monitor_animal.rs:64
TurnCountLimit == 10    \* follow_person.rs:148
HysteresisPermille == 15 \* follow_person.rs:153 (0.015)
NotifyInterval == 60000 \* monitor_animal.rs:76
U16 == 65536            \* follow_person.rs:173 (marker.h as u16)

Temps == {70, 90}
TurnCounts == {-2, -1, 0, 1, 5, 9, 10, 11}
Phases == {"CW", "CCW"}
ExHeights == {0, 100}
ImgHeights == {240, 480}
TargetHeights == {50, 100}
Rests == {-1, 0}
Heights == {80, 92, 93}

PERSON == 1             \* RoktrackClasses::PERSON.to_u32()
ConfThreshold == 50     \* property.conf.detectthreshold.person, in percent

NullDetection == [cls |-> 0, h |-> 0, conf |-> 0]

Detections ==
    {[cls |-> PERSON, h |-> hh, conf |-> 80] : hh \in Heights}
    \cup {[cls |-> PERSON, h |-> 100, conf |-> 30],
          [cls |-> 0, h |-> 100, conf |-> 80]}

\* What the animal session reports: nothing, or one animal of a known class.
AnimalLists == {<<>>, <<[cls |-> 0, h |-> 80, conf |-> 80]>>}

SeqsUpTo(S, n) == UNION {[1..k -> S] : k \in 0..n}

DetectionLists == SeqsUpTo(Detections, MaxDets)

\* The lists the decision logic is driven with: nothing seen, or one detection.
SingleDetectionLists == {<<>>} \cup {<<d>> : d \in Detections}

TargetTimes == {1000}
ShootingTimes == {t + StaleMargin + d : t \in TargetTimes, d \in {-1, 0}}

Devices == [turning : BOOLEAN, target_time : TargetTimes, bumper_low : BOOLEAN]

\* The clock starts later than one notify interval after the epoch and moves
\* in steps around the notify interval.
ClockOrigins == {100000}
ClockGaps == {NotifyInterval - 1, NotifyInterval, NotifyInterval + 1}
ClockEnd == 100000 + MaxClockSteps * (NotifyInterval + 1)

VisualInfos == [shooting_start_time : ShootingTimes, detections : DetectionLists]

FollowInfos ==
    [shooting_start_time : ShootingTimes, detections : SingleDetectionLists]

MonitorInfos == [shooting_start_time : ShootingTimes, detections : AnimalLists]

RoktrackStates ==
    [state : BOOLEAN, pi_temp : Temps, turn_count : TurnCounts, phase : Phases,
     ex_height : ExHeights, img_height : ImgHeights,
     target_height : TargetHeights, marker_height : {0}, rest : Rests]

----------------------------------------------------------------------------
(* Vision post-processing and actuation primitives (pilot::base,           *)
(* vision::detector): bodies outside the three source files.               *)

RECURSIVE sort_big(_)
sort_big(dets) ==
    IF dets = <<>> THEN <<>>
    ELSE LET i == CHOOSE j \in 1..Len(dets) :
                      \A k \in 1..Len(dets) :
                          dets[k].h < dets[j].h \/ (dets[k].h = dets[j].h /\ j <= k)
             rest == [k \in 1..(Len(dets) - 1) |->
                          IF k < i THEN dets[k] ELSE dets[k + 1]]
         IN <<dets[i]>> \o sort_big(rest)

filter(dets, cls, threshold) ==
    SelectSeq(dets, LAMBDA d : d.cls = cls /\ d.conf >= threshold)

InvertedPhase(p) == IF p = "CW" THEN "CCW" ELSE "CW"

\* The RoktrackState a primitive leaves behind.
PrimitiveState(prim, state, marker) ==
    CASE prim = "invert_phase"    -> [state EXCEPT !.phase = InvertedPhase(@)]
      [] prim = "reset_ex_height" -> [state EXCEPT !.ex_height = 0]
      [] prim = "set_new_target"  -> [state EXCEPT !.ex_height = marker.h]
      [] prim = "keep_turn"       -> [state EXCEPT !.turn_count = @ + 1]
      [] prim = "start_turn"      -> [state EXCEPT !.turn_count = 1]
      [] OTHER                    -> state

\* The commands a primitive sends on the Command Channel.
PrimitiveSends(prim) == IF prim = "halt" THEN <<"Off">> ELSE <<>>

----------------------------------------------------------------------------
(* follow_person.rs                                                        *)

\* Faulty variant: the temperature is examined before the master enable.
assess_system_risk_follow_TempFirst(state, device) ==
    IF state.pi_temp > TempThreshold THEN "HighTemp"
    ELSE IF ~state.state THEN "StateOff"
    ELSE IF device.bumper_low THEN "Bumped"
    ELSE "None"

assess_system_risk_follow(state, device) ==
    IF ~state.state THEN "StateOff"
    ELSE IF state.pi_temp > TempThreshold THEN "HighTemp"
    ELSE IF device.bumper_low THEN "Bumped"
    ELSE "None"

AsU16(n) == n % U16

\* Faulty variant: the cap is compared strictly.
TurnCountExceeded_Strict(state) == TurnCountLimit < state.turn_count

\* Line 148.
TurnCountExceeded(state) == TurnCountLimit <= state.turn_count

\* Faulty variant: the margin of 1.5% of the frame height is left out.
HysteresisBelow_NoMargin(h, ex_height, img_height) == h < ex_height

\* Line 153: (marker.h as f32) < ex_height as f32 - img_height as f32 * 0.015,
\* in thousandths.  img_height * 15 is no multiple of 1000 for the frame heights
\* of ImgHeights, so the f32 rounding cannot move an integer h across the bound.
HysteresisBelow(h, ex_height, img_height) ==
    h * 1000 < ex_height * 1000 - img_height * HysteresisPermille

\* Faulty variant: a remaining work of exactly zero counts as exhausted.
RestExhausted_OrZero(state) == state.rest <= 0

\* Line 154.
RestExhausted(state) == state.rest < 0

\* Faulty variant: the two approach sub-states are exchanged.
ApproachDecision_Swapped(state) ==
    IF state.turn_count = 0 THEN "Stand"
    ELSE IF state.turn_count = -1 THEN "StartTurn"
    ELSE "None"

\* Lines 166-172.
ApproachDecision(state) ==
    IF state.turn_count = -1 THEN "Stand"
    ELSE IF state.turn_count = 0 THEN "StartTurn"
    ELSE "None"

assess_situation(state, marker) ==
    IF TurnCountExceeded(state) THEN "TurnCountExceeded"
    ELSE IF 0 < state.turn_count THEN
        IF marker.h = 0 THEN "TurnMarkerInvisible"
        ELSE IF HysteresisBelow(marker.h, state.ex_height, state.img_height) THEN
            IF RestExhausted(state) THEN
                IF state.phase = "CW" THEN "MissionComplete" ELSE "InvertPhase"
            ELSE "TurnMarkerFound"
        ELSE "TurnKeep"
    ELSE IF marker.h = 0 THEN ApproachDecision(state)
    ELSE IF state.target_height <= AsU16(marker.h) THEN "ReachMarker"
    ELSE "Proceed"

\* Faulty variant: reaching the marker stops the chassis before pausing.
ActPrimitive_StopAndPause(action) ==
    CASE action = "TurnCountExceeded"   -> <<"halt">>
      [] action = "TurnMarkerInvisible" -> <<"reset_ex_height">>
      [] action = "TurnMarkerFound"     -> <<"set_new_target">>
      [] action = "InvertPhase"         -> <<"invert_phase">>
      [] action = "MissionComplete"     -> <<"mission_complete">>
      [] action = "TurnKeep"            -> <<"keep_turn">>
      [] action = "Stand"               -> <<"stand">>
      [] action = "StartTurn"           -> <<"start_turn">>
      [] action = "ReachMarker"         -> <<"stop", "pause">>
      [] action = "Proceed"             -> <<"proceed">>
      [] OTHER                          -> <<>>

\* The match of handle, lines 89-105: the primitive each decision invokes.
ActPrimitive(action) ==
    CASE action = "TurnCountExceeded"   -> <<"halt">>
      [] action = "TurnMarkerInvisible" -> <<"reset_ex_height">>
      [] action = "TurnMarkerFound"     -> <<"set_new_target">>
      [] action = "InvertPhase"         -> <<"invert_phase">>
      [] action = "MissionComplete"     -> <<"mission_complete">>
      [] action = "TurnKeep"            -> <<"keep_turn">>
      [] action = "Stand"               -> <<"stand">>
      [] action = "StartTurn"           -> <<"start_turn">>
      [] action = "ReachMarker"         -> <<"pause">>
      [] action = "Proceed"             -> <<"proceed">>
      [] OTHER                          -> <<>>

\* The match of handle, lines 43-56: what is called for an assessed risk.
RiskCalls(risk) ==
    CASE risk = "StateOff" -> <<"stop">>
      [] risk = "HighTemp" -> <<"stop", "speak:high_temp">>
      [] risk = "Bumped"   -> <<"escape", "speak:bumped">>
      [] OTHER             -> <<>>

\* Faulty variant: the 300 ms settling margin is left out.
StaleFrame_NoMargin(device, visual_info) ==
    device.turning /\ visual_info.shooting_start_time < device.target_time

\* Lines 64-66 of follow_person.rs and 62-64 of monitor_animal.rs.
StaleFrame(device, visual_info) ==
    device.turning
    /\ visual_info.shooting_start_time < device.target_time + StaleMargin

\* Faulty variant: the detections are filtered in the order they came in.
SelectMarker_Unsorted(visual_info) ==
    LET dets == filter(visual_info.detections, PERSON, ConfThreshold)
    IN IF dets = <<>> THEN NullDetection ELSE Head(dets)

\* Lines 73-81: the first person detection after sort and filter, or the default.
SelectMarker(visual_info) ==
    LET dets == filter(sort_big(visual_info.detections), PERSON, ConfThreshold)
    IN IF dets = <<>> THEN NullDetection ELSE Head(dets)

RECURSIVE ApplyCalls(_, _, _)
ApplyCalls(calls, state, marker) ==
    IF calls = <<>> THEN state
    ELSE ApplyCalls(Tail(calls), PrimitiveState(Head(calls), state, marker), marker)

RECURSIVE SentBy(_)
SentBy(calls) ==
    IF calls = <<>> THEN <<>> ELSE PrimitiveSends(Head(calls)) \o SentBy(Tail(calls))

NoTick ==
    [handler |-> "none", risk |-> "None", stale |-> FALSE, decided |-> FALSE,
     marker_h |-> 0, action |-> "None", calls |-> <<>>, sent |-> <<>>,
     device |-> [turning |-> FALSE, target_time |-> 0, bumper_low |-> FALSE],
     shooting_start_time |-> 0, detected |-> FALSE, now |-> 0,
     detections |-> <<>>,
     before |-> [state |-> FALSE, pi_temp |-> 0, turn_count |-> 0, phase |-> "CW",
                 ex_height |-> 0, img_height |-> 0, target_height |-> 0,
                 marker_height |-> 0, rest |-> 0],
     last_before |-> 0]

\* Lines 62-105: the tick once no risk was assessed.
FollowDecide(base, state, device, visual_info) ==
    IF StaleFrame(device, visual_info) THEN
        [state |-> state, tick |-> [base EXCEPT !.stale = TRUE]]
    ELSE
        LET marker == SelectMarker(visual_info)
            state1 == [state EXCEPT !.marker_height = marker.h]
            action == assess_situation(state1, marker)
            calls  == ActPrimitive(action)
        IN  [state |-> ApplyCalls(calls, state1, marker),
             tick  |-> [base EXCEPT !.decided = TRUE, !.marker_h = marker.h,
                                    !.action = action, !.calls = calls,
                                    !.sent = SentBy(calls)]]

FollowBase(state, device, visual_info) ==
    [NoTick EXCEPT !.handler = "FollowPerson",
                   !.risk = assess_system_risk_follow(state, device),
                   !.device = device, !.before = state,
                   !.shooting_start_time = visual_info.shooting_start_time]

\* Faulty variant: the early return of lines 57-60 is missing.
FollowPerson_handle_NoReturn(state, device, visual_info) ==
    LET base == FollowBase(state, device, visual_info)
        riskCalls == RiskCalls(base.risk)
        state0 == ApplyCalls(riskCalls, state, NullDetection)
        out == FollowDecide(base, state0, device, visual_info)
    IN  [state |-> out.state,
         tick  |-> [out.tick EXCEPT !.calls = riskCalls \o @,
                                    !.sent = SentBy(riskCalls) \o @]]

\* The outcome of one FollowPerson::handle invocation, lines 33-107: the state
\* it leaves and the record of the tick.
FollowPerson_handle(state, device, visual_info) ==
    LET base == FollowBase(state, device, visual_info)
    IN  IF base.risk # "None" THEN
            [state |-> ApplyCalls(RiskCalls(base.risk), state, NullDetection),
             tick  |-> [base EXCEPT !.calls = RiskCalls(base.risk),
                                    !.sent = SentBy(RiskCalls(base.risk))]]
        ELSE FollowDecide(base, state, device, visual_info)

FollowPersonTick(infos) ==
    \E device \in Devices, visual_info \in infos :
        LET out == FollowPerson_handle(rs, device, visual_info)
        IN  /\ rs' = out.state
            /\ tick' = out.tick
            /\ UNCHANGED <<last_detected_time, now, notify_log>>
            /\ UNCHANGED vision_vars

\* The states one invocation with a list of several detections starts from; the
\* marker height left by an earlier tick may be anything.
SelectStates ==
    {[s EXCEPT !.marker_height = m] :
        s \in {t \in RoktrackStates :
                  /\ t.state /\ t.pi_temp = 70
                  /\ t.img_height = 480 /\ t.target_height = 100},
        m \in {0, 93}}

\* One invocation of FollowPerson::handle, lines 33-107, on a frame with up to
\* MaxDets detections; the record of the tick keeps the detections it was given.
SelectTick ==
    /\ tick = NoTick
    /\ \E device \in Devices, visual_info \in VisualInfos :
        LET out == FollowPerson_handle(rs, device, visual_info)
        IN  /\ rs' = out.state
            /\ tick' = [out.tick EXCEPT !.detections = visual_info.detections]
    /\ UNCHANGED <<last_detected_time, now, notify_log>>
    /\ UNCHANGED vision_vars

\* assess_situation on its own, lines 147-178: one call on a state and a marker
\* of any height.
AssessStates ==
    [state : {TRUE}, pi_temp : {70}, turn_count : -2..MaxTurnCount, phase : Phases,
     ex_height : ExHeights, img_height : ImgHeights,
     target_height : TargetHeights, marker_height : {0}, rest : Rests]

AssessTick ==
    /\ tick = NoTick
    /\ \E h \in 0..MaxHeight :
        LET marker == [NullDetection EXCEPT !.h = h]
        IN  tick' = [NoTick EXCEPT !.handler = "assess_situation", !.decided = TRUE,
                                   !.before = rs, !.marker_h = h,
                                   !.action = assess_situation(rs, marker)]
    /\ UNCHANGED <<rs, last_detected_time, now, notify_log>>
    /\ UNCHANGED vision_vars

----------------------------------------------------------------------------
(* monitor_animal.rs                                                       *)

assess_system_risk_monitor(state) ==
    IF ~state.state THEN "StateOff"
    ELSE IF state.pi_temp > TempThreshold THEN "HighTemp"
    ELSE "None"

\* Faulty variant: the interval is compared with <=.
NotifyDue_Inclusive(last, t) == last + NotifyInterval <= t

\* Line 76.
NotifyDue(last, t) == last + NotifyInterval < t

\* Faulty variant: a failed notification gives the window back.
LastAfterNotify_Restored(last, t, delivered) == IF delivered THEN t ELSE last

\* Lines 78-84: last_detected_time is set before send_line_notify_with_image is
\* called, and the result of the call is dropped.
LastAfterNotify(last, t, delivered) == t

\* Faulty variant: the alert is spoken only when a notification is due.
AlertCalls_Throttled(due) ==
    IF due THEN <<"speak:animal_detecting", "notify">> ELSE <<>>

\* Lines 71-86: the alert is spoken for every non-empty detection list, the
\* notification is sent only when it is due.
AlertCalls(due) ==
    IF due THEN <<"speak:animal_detecting", "notify">>
    ELSE <<"speak:animal_detecting">>

\* The outcome of one MonitorAnimal::handle invocation, lines 35-88, at clock
\* reading t; `delivered` is whether send_line_notify_with_image succeeds.
MonitorAnimal_handle(last, state, device, visual_info, t, delivered) ==
    LET risk == assess_system_risk_monitor(state)
        base == [NoTick EXCEPT !.handler = "MonitorAnimal", !.risk = risk,
                               !.device = device, !.before = state,
                               !.shooting_start_time = visual_info.shooting_start_time,
                               !.detected = visual_info.detections # <<>>,
                               !.now = t, !.last_before = last]
        quiet(tk) == [state |-> state, tick |-> tk, last |-> last, notified |-> <<>>]
    IN  IF risk # "None" THEN quiet([base EXCEPT !.calls = RiskCalls(risk)])
        ELSE IF StaleFrame(device, visual_info) THEN quiet([base EXCEPT !.stale = TRUE])
        ELSE IF visual_info.detections = <<>> THEN quiet([base EXCEPT !.decided = TRUE])
        ELSE IF NotifyDue(last, t) THEN
            [state |-> state,
             tick  |-> [base EXCEPT !.decided = TRUE,
                                    !.calls = AlertCalls(TRUE)],
             last  |-> LastAfterNotify(last, t, delivered),
             notified |-> <<[at |-> t, ok |-> delivered]>>]
        ELSE quiet([base EXCEPT !.decided = TRUE, !.calls = AlertCalls(FALSE)])

MonitorAnimalTick ==
    \E device \in Devices, visual_info \in MonitorInfos, delivered \in BOOLEAN :
        LET out == MonitorAnimal_handle(last_detected_time, rs, device,
                                        visual_info, now, delivered)
        IN  /\ rs' = out.state
            /\ tick' = out.tick
            /\ last_detected_time' = out.last
            /\ notify_log' = notify_log \o out.notified
            /\ UNCHANGED now
            /\ UNCHANGED vision_vars

\* Time passes between two ticks.
ClockAdvance ==
    \E gap \in ClockGaps :
        /\ now + gap <= ClockEnd
        /\ now' = now + gap
        /\ UNCHANGED <<rs, tick, last_detected_time, notify_log>>
        /\ UNCHANGED vision_vars

----------------------------------------------------------------------------
(* vision.rs                                                               *)

VisionMgmtCommands ==
    {"On", "Off", "SwitchSessionPylon", "SwitchSessionPylonOcr",
     "SwitchSessionAnimal", "SwitchSz320", "SwitchSz640"}

SessionTypes == {"Sz320", "Sz640"}
SessionFamilies == {"pylon", "pylon_ocr", "animal"}

NoFrame == [shooting_start_time |-> 0, session_type |-> "none", ocr |-> FALSE]

\* detector::onnx::YoloV8::support_ocr, outside the source files.
support_ocr(family) == family = "pylon_ocr"

\* The family a SwitchSession command builds, lines 81-94.
BuiltFamily(cmd) ==
    CASE cmd = "SwitchSessionPylon"    -> "pylon"
      [] cmd = "SwitchSessionPylonOcr" -> "pylon_ocr"
      [] cmd = "SwitchSessionAnimal"   -> "animal"

\* Faulty variant: On does not set the flag.
EnabledAfter_OnIgnored(cmd, enabled) == IF cmd = "Off" THEN FALSE ELSE enabled

\* Lines 74-80: the enabled flag after a command (or none) was received.
EnabledAfter(cmd, enabled) ==
    CASE cmd = "Off" -> FALSE
      [] cmd = "On"  -> TRUE
      [] OTHER       -> enabled

\* Lines 95-106: the session type after a command (or none) was received.
SessionTypeAfter(cmd, st) ==
    CASE cmd = "SwitchSz320" -> "Sz320"
      [] cmd = "SwitchSz640" -> "Sz640"
      [] OTHER               -> st

\* Line 73: rx.try_recv() takes one command off the Command Channel.
Drained(q) == Tail(q)

\* Lines 70-108: sleep, then try_recv and the match on its result.  A build of
\* sessions may fail; its result is dropped and the family stays as it was.
Poll ==
    /\ pc = "poll"
    /\ LET cmd == IF cmdq = <<>> THEN "none" ELSE Head(cmdq)
       IN  /\ cmdq' = IF cmdq = <<>> THEN cmdq ELSE Drained(cmdq)
           /\ last_cmd' = cmd
           /\ local_state' = EnabledAfter(cmd, local_state)
           /\ session_type' = SessionTypeAfter(cmd, session_type)
           /\ IF cmd \in {"SwitchSessionPylon", "SwitchSessionPylonOcr",
                          "SwitchSessionAnimal"}
              THEN \E built \in BOOLEAN :
                       sessions' = IF built THEN BuiltFamily(cmd) ELSE sessions
              ELSE sessions' = sessions
           /\ pc' = IF cmd = "Off" THEN "poll" ELSE "gate"
    /\ was_enabled' = local_state
    /\ UNCHANGED <<resq, inner_lock, frame, cycles, commands_sent, last_cycle,
                   published, received>>
    /\ UNCHANGED pilot_vars

\* Faulty variant: the enabled flag is not consulted.
Suspended_Never == FALSE

\* Line 111.
Suspended == ~local_state

\* Lines 111-113: a disabled pipeline starts the loop again.
GateClosed ==
    /\ pc = "gate"
    /\ Suspended
    /\ pc' = "poll"
    /\ UNCHANGED <<cmdq, resq, local_state, session_type, sessions, inner_lock,
                   frame, last_cmd, cycles, commands_sent, last_cycle, published,
                   received>>
    /\ UNCHANGED was_enabled
    /\ UNCHANGED pilot_vars

\* Lines 118-121: a new VisualInfo is stamped and take_picture is called on the
\* locked inner.
CaptureBegin ==
    /\ pc = "gate"
    /\ ~Suspended
    /\ cycles < MaxCycles
    /\ cycles' = cycles + 1
    /\ frame' = [NoFrame EXCEPT !.shooting_start_time = cycles + 1]
    /\ inner_lock' = "worker"
    /\ pc' = "capture"
    /\ last_cycle' = "running"
    /\ UNCHANGED <<cmdq, resq, local_state, session_type, sessions, last_cmd,
                   commands_sent, published, received>>
    /\ UNCHANGED was_enabled
    /\ UNCHANGED pilot_vars

\* Faulty variant: the result of take_picture is not looked at.
AfterCapture_Unchecked(taken) == "session"

\* Line 124: if res_take.is_ok() the cycle goes on, else the loop starts again.
AfterCapture(taken) == IF taken THEN "session" ELSE "poll"

\* Lines 121-124: take_picture returns, the guard is dropped; a failed capture
\* ends the cycle.
CaptureEnd ==
    /\ pc = "capture"
    /\ inner_lock' = "free"
    /\ \E taken \in BOOLEAN :
        /\ pc' = AfterCapture(taken)
        /\ frame' = IF pc' = "poll" THEN NoFrame ELSE frame
        /\ last_cycle' = IF taken THEN last_cycle ELSE "capture_failed"
    /\ UNCHANGED <<cmdq, resq, local_state, session_type, sessions, last_cmd,
                   cycles, commands_sent, published, received>>
    /\ UNCHANGED was_enabled
    /\ UNCHANGED pilot_vars

\* Faulty variant: the session type is the one the detector was created with.
SessionTypeRead_Initial(st) == "Sz320"

\* Line 125: det.session_type.clone().
SessionTypeRead(st) == st

\* Lines 125-138: the session type is cloned under one lock, infer is called
\* with the clone under another.
InferBegin ==
    /\ pc = "session"
    /\ frame' = [frame EXCEPT !.session_type = SessionTypeRead(session_type)]
    /\ inner_lock' = "worker"
    /\ pc' = "infer"
    /\ UNCHANGED <<cmdq, resq, local_state, session_type, sessions, last_cmd,
                   cycles, commands_sent, last_cycle, published, received>>
    /\ UNCHANGED was_enabled
    /\ UNCHANGED pilot_vars

\* Lines 138-143: infer returns; unwrap panics on Err and the thread ends.
\* Otherwise support_ocr is read and, if true, ocr is called on the locked inner.
InferEnd ==
    /\ pc = "infer"
    /\ \E inferred \in BOOLEAN :
        IF ~inferred THEN
            /\ pc' = "dead" /\ inner_lock' = "free" /\ frame' = NoFrame
            /\ last_cycle' = "infer_failed"
        ELSE IF support_ocr(sessions) THEN
            /\ pc' = "ocr" /\ inner_lock' = "worker" /\ frame' = frame
            /\ last_cycle' = last_cycle
        ELSE
            /\ pc' = "send" /\ inner_lock' = "free" /\ frame' = frame
            /\ last_cycle' = last_cycle
    /\ UNCHANGED <<cmdq, resq, local_state, session_type, sessions, last_cmd,
                   cycles, commands_sent, published, received>>
    /\ UNCHANGED was_enabled
    /\ UNCHANGED pilot_vars

\* Lines 144-155: ocr returns; unwrap panics on Err and the thread ends.
OcrEnd ==
    /\ pc = "ocr"
    /\ inner_lock' = "free"
    /\ \E read \in BOOLEAN :
        /\ pc' = IF read THEN "send" ELSE "dead"
        /\ frame' = IF read THEN [frame EXCEPT !.ocr = TRUE] ELSE NoFrame
        /\ last_cycle' = IF read THEN last_cycle ELSE "ocr_failed"
    /\ UNCHANGED <<cmdq, resq, local_state, session_type, sessions, last_cmd,
                   cycles, commands_sent, published, received>>
    /\ UNCHANGED was_enabled
    /\ UNCHANGED pilot_vars

\* Faulty variant: a rendezvous channel, whose send waits for the reader.
SendReady_Rendezvous(q) == q = <<>>

\* Line 157 with the Sender<VisualInfo> of line 60: std::sync::mpsc::Sender::send
\* queues the value and returns, however many values are waiting.
SendReady(q) == TRUE

\* Faulty variant: a slot that keeps only the latest value.
Enqueue_Latest(q, v) == <<v>>

\* Line 157: the channel keeps the values in the order they were sent.
Enqueue(q, v) == Append(q, v)

\* Lines 156-157: the VisualInfo is sent on the mpsc channel, which queues it.
Publish ==
    /\ pc = "send"
    /\ SendReady(resq)
    /\ resq' = Enqueue(resq, frame)
    /\ published' = Append(published, frame)
    /\ frame' = NoFrame
    /\ pc' = "poll"
    /\ last_cycle' = "published"
    /\ UNCHANGED <<cmdq, local_state, session_type, sessions, inner_lock, last_cmd,
                   cycles, commands_sent, received>>
    /\ UNCHANGED was_enabled
    /\ UNCHANGED pilot_vars

\* Another thread sends a command (the Sender half of the Command Channel).  Once
\* the worker has panicked its Receiver is dropped and a send returns Err.
SendCommand ==
    /\ commands_sent < MaxCommands
    /\ pc # "dead"
    /\ \E cmd \in VisionMgmtCommands : cmdq' = Append(cmdq, cmd)
    /\ commands_sent' = commands_sent + 1
    /\ UNCHANGED <<resq, local_state, session_type, sessions, inner_lock, pc,
                   frame, last_cmd, cycles, last_cycle, published, received>>
    /\ UNCHANGED was_enabled
    /\ UNCHANGED pilot_vars

\* The host loop takes the next VisualInfo (the Receiver half of the Result
\* Channel).
ReceiveResult ==
    /\ resq # <<>>
    /\ received' = Append(received, Head(resq))
    /\ resq' = Tail(resq)
    /\ UNCHANGED <<cmdq, local_state, session_type, sessions, inner_lock, pc,
                   frame, last_cmd, cycles, commands_sent, last_cycle, published>>
    /\ UNCHANGED was_enabled
    /\ UNCHANGED pilot_vars

----------------------------------------------------------------------------
(* Specifications                                                          *)

\* MonitorAnimal::new, with the robot state at its baseline but for the two
\* fields the risk assessment reads.
BaselineStates ==
    {s \in RoktrackStates :
        /\ s.turn_count = 0 /\ s.phase = "CCW" /\ s.ex_height = 100
        /\ s.img_height = 480 /\ s.target_height = 100 /\ s.rest = 0}

\* RoktrackVision::new, lines 43-51, before run is called.
VisionIdle ==
    /\ cmdq = <<>>
    /\ resq = <<>>
    /\ local_state = TRUE
    /\ session_type = "Sz320"
    /\ sessions = "pylon"
    /\ inner_lock = "free"
    /\ pc = "poll"
    /\ frame = NoFrame
    /\ last_cmd = "none"
    /\ cycles = 0
    /\ commands_sent = 0
    /\ last_cycle = "none"
    /\ published = <<>>
    /\ received = <<>>
    /\ was_enabled = TRUE

InitVision ==
    /\ rs \in {s \in BaselineStates : s.state /\ s.pi_temp = 70}
    /\ tick = NoTick
    /\ last_detected_time = 0
    /\ now \in ClockOrigins
    /\ notify_log = <<>>
    /\ cmdq = <<>>
    /\ resq = <<>>
    /\ local_state = TRUE
    /\ session_type \in SessionTypes
    /\ sessions \in SessionFamilies
    /\ inner_lock = "free"
    /\ pc = "poll"
    /\ frame = NoFrame
    /\ last_cmd = "none"
    /\ cycles = 0
    /\ commands_sent = 0
    /\ last_cycle = "none"
    /\ published = <<>>
    /\ received = <<>>
    /\ was_enabled = TRUE

NextVision ==
    \/ Poll \/ GateClosed \/ CaptureBegin \/ CaptureEnd \/ InferBegin \/ InferEnd
    \/ OcrEnd \/ Publish \/ SendCommand \/ ReceiveResult

SpecVision == InitVision /\ [][NextVision]_vars

\* The steps of the worker thread spawned at line 68.
Worker ==
    \/ Poll \/ GateClosed \/ CaptureBegin \/ CaptureEnd
    \/ InferBegin \/ InferEnd \/ OcrEnd \/ Publish

\* The worker is a thread of its own looping with a 10 ms sleep (lines 68-70):
\* while one of its steps can be taken, the scheduler lets it take one.
\* The liveness runs start with the first resolution and a pylon family, with or
\* without OCR.
InitVisionLive ==
    /\ InitVision
    /\ session_type = "Sz320"
    /\ support_ocr(sessions) \/ sessions = "pylon"

SpecVisionLive == InitVisionLive /\ [][NextVision]_vars /\ WF_vars(Worker)

InitMonitor ==
    /\ rs \in BaselineStates
    /\ tick = NoTick
    /\ last_detected_time = 0
    /\ now \in ClockOrigins
    /\ notify_log = <<>>
    /\ VisionIdle

NextMonitor == MonitorAnimalTick \/ ClockAdvance

SpecMonitor == InitMonitor /\ [][NextMonitor]_vars

InitFollow ==
    /\ rs \in RoktrackStates
    /\ tick = NoTick
    /\ last_detected_time = 0
    /\ now \in ClockOrigins
    /\ notify_log = <<>>
    /\ VisionIdle

NextFollow == FollowPersonTick(FollowInfos)

SpecFollow == InitFollow /\ [][NextFollow]_vars

InitAssess ==
    /\ rs \in AssessStates
    /\ tick = NoTick
    /\ last_detected_time = 0
    /\ now \in ClockOrigins
    /\ notify_log = <<>>
    /\ VisionIdle

NextAssess == AssessTick

SpecAssess == InitAssess /\ [][NextAssess]_vars

InitSelect ==
    /\ rs \in SelectStates
    /\ tick = NoTick
    /\ last_detected_time = 0
    /\ now \in ClockOrigins
    /\ notify_log = <<>>
    /\ VisionIdle

NextSelect == SelectTick

SpecSelect == InitSelect /\ [][NextSelect]_vars

\* Both handlers driven from the baseline state at one clock reading.
NextRisk == FollowPersonTick(FollowInfos) \/ MonitorAnimalTick

SpecRisk == InitMonitor /\ [][NextRisk]_vars

----------------------------------------------------------------------------
(* Properties                                                              *)

FollowTick == tick.handler = "FollowPerson"
MonitorTick == tick.handler = "MonitorAnimal"
Assessed == tick.decided /\ tick.handler \in {"FollowPerson", "assess_situation"}

ActPhases ==
    {"TurnCountExceeded", "TurnMarkerInvisible", "TurnMarkerFound", "InvertPhase",
     "MissionComplete", "TurnKeep", "Stand", "StartTurn", "ReachMarker", "Proceed"}

ActPhasePrimitives ==
    {"halt", "reset_ex_height", "set_new_target", "invert_phase", "mission_complete",
     "keep_turn", "stand", "start_turn", "pause", "proceed"}

ActuationPrimitives == ActPhasePrimitives \cup {"stop", "escape"}

CallsIn(S) == SelectSeq(tick.calls, LAMBDA c : c \in S)

C2_RiskPriority ==
    (FollowTick \/ MonitorTick) =>
        /\ ~tick.before.state => (tick.risk = "StateOff" /\ tick.calls = <<"stop">>)
        /\ (tick.before.state /\ tick.before.pi_temp > 70) => tick.risk = "HighTemp"
        /\ tick.risk = "Bumped" <=>
              (FollowTick /\ tick.before.state /\ tick.before.pi_temp <= 70
                 /\ tick.device.bumper_low)

\* C2 witness: FollowPerson with the master enable off at 90 degrees, bumper low.
C2_Witness ==
    /\ FollowTick /\ ~tick.before.state /\ tick.before.pi_temp = 90
    /\ tick.device.bumper_low /\ tick.calls = <<"stop">>

\* C3: a FollowPerson tick with an assessed risk calls that risk's effect and
\* nothing else: marker_height is not written, assess_situation is not run and
\* no ActPhase primitive is invoked.
C3_RiskPreempts ==
    (FollowTick /\ tick.risk # "None") =>
        /\ tick.calls = (CASE tick.risk = "StateOff" -> <<"stop">>
                           [] tick.risk = "HighTemp" -> <<"stop", "speak:high_temp">>
                           [] tick.risk = "Bumped"   -> <<"escape", "speak:bumped">>)
        /\ ~tick.decided /\ tick.action = "None"
        /\ rs.marker_height = tick.before.marker_height
        /\ CallsIn(ActPhasePrimitives) = <<>>

\* C3 witness: bumped with the turn count at its cap, which would have halted.
C3_Witness ==
    /\ FollowTick /\ tick.risk = "Bumped" /\ tick.before.turn_count = 10
    /\ ~tick.device.turning

\* C4 as stated: turn_count=5, target_height=50, marker_height=80 decides Proceed.
C4_Original ==
    (FollowTick /\ tick.decided) =>
        /\ (tick.before.turn_count = 0 /\ tick.marker_h = 0) => tick.action = "StartTurn"
        /\ (tick.before.turn_count = -1 /\ tick.marker_h = 0) => tick.action = "Stand"
        /\ (tick.before.turn_count = 5 /\ tick.before.target_height = 50
              /\ tick.marker_h = 80) => tick.action = "Proceed"

\* C4 amended: turn_count=0 with no marker decides StartTurn, turn_count=-1 with
\* no marker decides Stand; turn_count=5, target_height=50, marker_height=80 is
\* inside the turning band and decides TurnKeep when 80 >= ex_height -
\* img_height*0.015, else TurnMarkerFound (rest >= 0), MissionComplete (rest < 0,
\* CW) or InvertPhase (rest < 0, CCW); Proceed is decided only for
\* turn_count <= 0 and 0 < marker_height < target_height.
C4_Scenario ==
    (FollowTick /\ tick.decided) =>
        /\ (tick.before.turn_count = 0 /\ tick.marker_h = 0) => tick.action = "StartTurn"
        /\ (tick.before.turn_count = -1 /\ tick.marker_h = 0) => tick.action = "Stand"
        /\ (tick.before.turn_count = 5 /\ tick.before.target_height = 50
              /\ tick.marker_h = 80) =>
              tick.action =
                  IF 80 * 1000 >= tick.before.ex_height * 1000
                                    - tick.before.img_height * 15
                  THEN "TurnKeep"
                  ELSE IF tick.before.rest >= 0 THEN "TurnMarkerFound"
                  ELSE IF tick.before.phase = "CW" THEN "MissionComplete"
                  ELSE "InvertPhase"
        /\ tick.action = "Proceed" =>
              /\ tick.before.turn_count <= 0
              /\ 0 < tick.marker_h /\ tick.marker_h < tick.before.target_height

\* C4 witness: the third step of the scenario, decided inside the turning band.
C4_Witness ==
    /\ FollowTick /\ tick.decided /\ tick.before.turn_count = 5
    /\ tick.before.target_height = 50 /\ tick.marker_h = 80
    /\ tick.action = "TurnMarkerFound"

\* C5: for 0 < turn_count < 10, img_height=480, ex_height=100 and rest >= 0 the
\* decision is TurnKeep for every marker height >= 93 and TurnMarkerFound for
\* every marker height in 1..92.
C5_Hysteresis ==
    (Assessed
        /\ 0 < tick.before.turn_count /\ tick.before.turn_count < 10
        /\ tick.before.img_height = 480 /\ tick.before.ex_height = 100
        /\ tick.before.rest >= 0) =>
        /\ tick.marker_h >= 93 => tick.action = "TurnKeep"
        /\ (1 <= tick.marker_h /\ tick.marker_h <= 92) => tick.action = "TurnMarkerFound"

\* C5 witness: the marker at 93, just above the 92.8 threshold, keeps turning.
C5_Witness ==
    /\ Assessed /\ tick.before.turn_count = 5
    /\ tick.before.img_height = 480 /\ tick.before.ex_height = 100
    /\ tick.before.rest >= 0 /\ tick.marker_h = 93 /\ tick.action = "TurnKeep"

\* C6: MissionComplete or InvertPhase is decided exactly when 0 < turn_count < 10,
\* the marker is visible, below ex_height - img_height*0.015, and rest < 0; then
\* CW decides MissionComplete and CCW decides InvertPhase.
C6_PhaseInteraction ==
    Assessed =>
        LET b == tick.before
            due == /\ 0 < b.turn_count /\ b.turn_count < 10
                   /\ tick.marker_h # 0
                   /\ tick.marker_h * 1000 < b.ex_height * 1000 - b.img_height * 15
                   /\ b.rest < 0
        IN  /\ tick.action \in {"MissionComplete", "InvertPhase"} <=> due
            /\ due => tick.action = (IF b.phase = "CW" THEN "MissionComplete"
                                                      ELSE "InvertPhase")

\* C6 witness: rest below zero at turn_count 9 in phase CCW inverts the phase.
C6_Witness ==
    /\ Assessed /\ tick.before.turn_count = 9
    /\ tick.before.rest < 0 /\ tick.before.phase = "CCW"
    /\ tick.action = "InvertPhase"

\* C7: with turn_count >= 10 a tick with no risk and a fresh frame decides
\* TurnCountExceeded and invokes halt and nothing else.
C7_TurnCountCap ==
    (FollowTick /\ tick.decided /\ tick.before.turn_count >= 10) =>
        /\ tick.action = "TurnCountExceeded"
        /\ tick.calls = <<"halt">>

\* C7 witness: at exactly 10, a visible marker and rest below zero.
C7_Witness ==
    /\ FollowTick /\ tick.decided /\ tick.before.turn_count = 10
    /\ tick.marker_h = 80 /\ tick.before.rest < 0 /\ tick.calls = <<"halt">>

\* C8: a FollowPerson tick invokes at most one actuation primitive, a decision
\* invokes exactly its own primitive, and no two decisions share a primitive.
C8_OneActionPerTick ==
    /\ FollowTick => Len(CallsIn(ActuationPrimitives)) <= 1
    /\ (FollowTick /\ tick.decided /\ tick.action # "None") =>
            /\ tick.action \in ActPhases
            /\ tick.calls = ActPrimitive(tick.action)
            /\ Len(tick.calls) = 1 /\ tick.calls[1] \in ActPhasePrimitives
    /\ \A a, b \in ActPhases : a # b => ActPrimitive(a) # ActPrimitive(b)

\* C8 witness: reaching the marker pauses, and nothing else is called.
C8_Witness ==
    FollowTick /\ tick.action = "ReachMarker" /\ tick.calls = <<"pause">>

\* C9: a MonitorAnimal tick sends a notification exactly when it has a fresh
\* frame with a detection, no risk, and last_detected_time + 60000 < now;
\* last_detected_time changes only on such a tick, to now; successive
\* notifications are more than 60000 ms apart.
C9_NotifyThrottle ==
    /\ MonitorTick =>
        LET sends == CallsIn({"notify"}) # <<>>
        IN  /\ sends <=> (/\ tick.risk = "None" /\ ~tick.stale /\ tick.detected
                          /\ tick.last_before + 60000 < tick.now)
            /\ last_detected_time = (IF sends THEN tick.now ELSE tick.last_before)
    /\ \A i \in 1..(Len(notify_log) - 1) :
            notify_log[i + 1].at - notify_log[i].at > 60000
    /\ last_detected_time =
            (IF notify_log = <<>> THEN 0 ELSE notify_log[Len(notify_log)].at)

\* C9 witness: a detection 59,999 ms after the one that was notified is not
\* notified.
C9_Witness ==
    /\ MonitorTick /\ tick.decided /\ tick.detected
    /\ tick.now = tick.last_before + 59999
    /\ Len(notify_log) = 1 /\ CallsIn({"notify"}) = <<>>

\* C10: while the enabled flag is false (from the iteration that receives Off
\* to the one that receives On) the worker is neither capturing, inferring nor
\* sending and is alive; no cycle starts and nothing is published in a step
\* taken while disabled; only On enables again; the iteration that received Off
\* went straight back to polling.
C10_OffSuppressesCapture ==
    /\ [](~local_state =>
            /\ pc \in {"poll", "gate"}
            /\ inner_lock = "free" /\ frame = NoFrame)
    /\ [](last_cmd = "Off" => (pc = "poll" /\ ~local_state))
    /\ [][~local_state =>
            /\ cycles' = cycles
            /\ Len(resq') <= Len(resq)
            /\ (local_state' => last_cmd' = "On")]_vars

\* C10 witness: disabled after a cycle had run, the worker has drained a later
\* resolution switch and is polling again.
C10_Witness ==
    /\ ~local_state /\ cycles >= 1 /\ last_cmd = "SwitchSz640" /\ pc = "poll"
    /\ session_type = "Sz640"

\* C11: when infer or ocr returns an error, the cycle publishes nothing and the
\* worker goes on to the next iteration: after such a failure the worker is
\* polling or at the gate again, with nothing of that cycle left in hand.
C11_FailuresSwallowed ==
    last_cycle \in {"infer_failed", "ocr_failed"} =>
        /\ pc \in {"poll", "gate"}
        /\ frame = NoFrame

\* C12: a failed take_picture ends the cycle: the worker is back at the top of
\* the loop with the mutex free and no VisualInfo in hand (infer and ocr were not
\* entered), and nothing is published until the next capture begins.
C12_CaptureFailureSkipsCycle ==
    /\ [](last_cycle = "capture_failed" =>
            /\ pc \in {"poll", "gate"}
            /\ frame = NoFrame
            /\ inner_lock = "free")
    /\ [][last_cycle' = "capture_failed" =>
            /\ published' = published
            /\ Len(resq') <= Len(resq)
            /\ (last_cycle # "capture_failed" => (pc = "capture" /\ pc' = "poll"))]_vars

\* C12 witness: the first capture failed, nothing was published, and the worker
\* is capturing again in a later iteration.
C12_Witness ==
    /\ pc = "capture" /\ cycles = 2 /\ published = <<>>
    /\ last_cycle = "running"

\* C13: what the host loop has received, followed by what still waits on the
\* Result Channel, is exactly what the worker published, in the order of
\* publication; that order is the capture order (shooting_start_time does not
\* decrease), however far the reader lags.
C13_ResultOrder ==
    /\ published = received \o resq
    /\ \A i \in 1..Len(published) : \A j \in 1..Len(published) :
           i < j => published[i].shooting_start_time
                        <= published[j].shooting_start_time

\* C13 witness: the reader has taken the first VisualInfo while the second, of
\* another resolution, waits behind it.
C13_Witness ==
    /\ Len(received) = 1 /\ Len(resq) = 1
    /\ received[1].shooting_start_time = 1 /\ resq[1].shooting_start_time = 2
    /\ received[1].session_type # resq[1].session_type

C15_CommandDrain ==
    /\ [](cmdq # <<>> => pc # "dead")
    /\ [][Len(cmdq') < Len(cmdq) =>
            /\ pc = "poll"
            /\ cmdq' = Tail(cmdq)
            /\ last_cmd' = Head(cmdq)
            /\ local_state' = (CASE Head(cmdq) = "Off" -> FALSE
                                 [] Head(cmdq) = "On" -> TRUE
                                 [] OTHER -> local_state)
            /\ session_type' = (CASE Head(cmdq) = "SwitchSz320" -> "Sz320"
                                  [] Head(cmdq) = "SwitchSz640" -> "Sz640"
                                  [] OTHER -> session_type)
            /\ sessions' \in
                 (CASE Head(cmdq) = "SwitchSessionPylon" -> {"pylon", sessions}
                    [] Head(cmdq) = "SwitchSessionPylonOcr" -> {"pylon_ocr", sessions}
                    [] Head(cmdq) = "SwitchSessionAnimal" -> {"animal", sessions}
                    [] OTHER -> {sessions})]_vars
    /\ [][Len(cmdq') >= Len(cmdq) =>
            /\ cmdq' = cmdq \/ \E cmd \in VisionMgmtCommands : cmdq' = Append(cmdq, cmd)
            /\ local_state' = local_state
            /\ session_type' = session_type
            /\ sessions' = sessions]_vars
    /\ [][(pc = "poll" /\ cmdq = <<>> /\ pc' # "poll") =>
            /\ last_cmd' = "none" /\ pc' = "gate" /\ cmdq' = cmdq]_vars

\* C15 witness: a resolution switch and a session switch were sent and applied
\* one after the other, and a later poll found the channel empty.
C15_Witness ==
    /\ commands_sent = 2 /\ cmdq = <<>> /\ last_cmd = "none" /\ pc = "gate"
    /\ session_type = "Sz640" /\ sessions = "pylon_ocr"

\* C16: the worker does not hold the mutex of the camera and detector while
\* take_picture, infer or ocr is in progress.
C16_LockDiscipline ==
    pc \in {"capture", "infer", "ocr"} => inner_lock = "free"

\* C17: the session type changes only in a poll step that takes SwitchSz320 or
\* SwitchSz640, to the value the command names; from the gate to the publish of
\* a cycle no command is taken and the session type and the session family stay
\* as they were; so the session type given to infer, and carried by the cycle to
\* its publish, is the one set by the last SwitchSz taken before the cycle began
\* (or the initial one).
C17_SwitchTiming ==
    /\ [](pc \in {"infer", "ocr", "send"} => frame.session_type = session_type)
    /\ [][session_type' # session_type =>
            /\ pc = "poll" /\ cmdq # <<>>
            /\ session_type' = (CASE Head(cmdq) = "SwitchSz320" -> "Sz320"
                                  [] Head(cmdq) = "SwitchSz640" -> "Sz640"
                                  [] OTHER -> "none")]_vars
    /\ [][(pc # "poll" /\ pc # "dead") =>
            /\ session_type' = session_type
            /\ sessions' = sessions
            /\ Len(cmdq') >= Len(cmdq)]_vars

\* C17 witness: the first cycle ran at 320, SwitchSz640 was taken before the
\* second began, and the second infers at 640 while a SwitchSz320 waits.
C17_Witness ==
    /\ pc = "infer" /\ cycles = 2 /\ frame.session_type = "Sz640"
    /\ Len(published) = 1 /\ published[1].session_type = "Sz320"
    /\ cmdq = <<"SwitchSz320">>

\* C18: on a tick with no risk and a current frame, the marker height left in
\* the state is the height of the largest person detection at or above the
\* confidence threshold (the first after sort and filter), or 0 when there is
\* none, whatever was there before and also when no action is decided; apart
\* from that write the state is changed only by the primitive the tick invoked.
C18_MarkerHeight ==
    (FollowTick /\ tick.decided) =>
        LET dets == tick.detections
            persons == {i \in DOMAIN dets :
                           dets[i].cls = PERSON /\ dets[i].conf >= ConfThreshold}
            expected == IF persons = {} THEN 0
                        ELSE CHOOSE h \in {dets[i].h : i \in persons} :
                                 \A i \in persons : dets[i].h <= h
            own == [tick.before EXCEPT !.marker_height = expected]
        IN  /\ rs.marker_height = expected
            /\ tick.marker_h = expected
            /\ tick.calls = <<>> => rs = own
            /\ \A prim \in {"pause", "stand", "proceed", "halt", "mission_complete"} :
                   tick.calls = <<prim>> => rs = own
            /\ tick.calls = <<"keep_turn">> =>
                   rs = [own EXCEPT !.turn_count = own.turn_count + 1]
            /\ tick.calls = <<"start_turn">> => rs = [own EXCEPT !.turn_count = 1]
            /\ tick.calls = <<"reset_ex_height">> => rs = [own EXCEPT !.ex_height = 0]
            /\ tick.calls = <<"set_new_target">> =>
                   rs = [own EXCEPT !.ex_height = expected]
            /\ tick.calls = <<"invert_phase">> =>
                   rs = [own EXCEPT !.phase = InvertedPhase(own.phase)]

\* C18 witness: a state that held marker height 93 and turn_count -2 was given
\* two detections, neither a confident person; no action was decided and the
\* marker height is 0.
C18_Witness ==
    /\ FollowTick /\ tick.decided /\ tick.action = "None" /\ tick.calls = <<>>
    /\ tick.before.marker_height = 93 /\ tick.before.turn_count = -2
    /\ Len(tick.detections) = 2 /\ rs.marker_height = 0

\* C19: a MonitorAnimal tick speaks 'animal_detecting' exactly once when there
\* is no risk, the frame is current and the detection list is not empty, within
\* the notification window or not, and never otherwise; with an empty list
\* nothing is spoken and nothing notified; no tick writes the RoktrackState or
\* sends a command on the Command Channel.
C19_AlertNotThrottled ==
    MonitorTick =>
        LET alerts == {i \in DOMAIN tick.calls : tick.calls[i] = "speak:animal_detecting"}
        IN  /\ Cardinality(alerts) = IF tick.decided /\ tick.detected THEN 1 ELSE 0
            /\ ~tick.detected =>
                   \A i \in DOMAIN tick.calls :
                       tick.calls[i] \notin {"speak:animal_detecting", "notify"}
            /\ rs = tick.before
            /\ tick.sent = <<>>
            /\ cmdq = <<>>

\* C19 witness: a notification went out earlier, its 60,000 ms window is still
\* open, and a tick with detections speaks the alert without notifying.
C19_Witness ==
    /\ MonitorTick /\ tick.decided /\ tick.detected
    /\ tick.last_before > 0 /\ tick.now < tick.last_before + NotifyInterval
    /\ tick.calls = <<"speak:animal_detecting">>
    /\ Len(notify_log) = 1

C21_FailedNotifyKeepsWindow ==
    LET n == Len(notify_log)
    IN  /\ \A i \in 1..n : ~notify_log[i].ok =>
               /\ i < n => notify_log[i + 1].at - notify_log[i].at > NotifyInterval
               /\ i = n => last_detected_time = notify_log[i].at
        /\ (MonitorTick /\ n > 0 /\ ~notify_log[n].ok) =>
               /\ (tick.detected /\ tick.now <= notify_log[n].at + NotifyInterval
                     /\ tick.last_before = notify_log[n].at)
                      => CallsIn({"notify"}) = <<>>
               /\ (CallsIn({"notify"}) # <<>>) =>
                      /\ tick.now = notify_log[n].at
                      /\ tick.decided /\ rs = tick.before
                      /\ tick.calls = <<"speak:animal_detecting", "notify">>

\* C21 witness: the only notification so far failed, and a later tick with
\* detections inside its window speaks the alert and attempts no notification.
C21_Witness ==
    /\ Len(notify_log) = 1 /\ ~notify_log[1].ok
    /\ MonitorTick /\ tick.decided /\ tick.detected
    /\ tick.now > notify_log[1].at /\ tick.now <= notify_log[1].at + NotifyInterval
    /\ tick.calls = <<"speak:animal_detecting">>
    /\ last_detected_time = notify_log[1].at

====
